---- MODULE Spec2Model ----
(***************************************************************************)
(* The DSP lock verifiers of the repository:                               *)
(*   scripts/verify-lock.py  (function main, helper sha256_file)           *)
(*   scripts/verify_lock.py  (module-level script, helper sha)             *)
(* Each compares the SHA-256 digest of a fixed list of files against the   *)
(* digests recorded in a table and exits 0 / 2.                            *)
(*                                                                         *)
(* Two state machines share the digest operators:                          *)
(*   Spec / SpecConc   one run of either script over a file system         *)
(*   SpecDigest        the read loop of sha256_file on one file            *)
(***************************************************************************)
EXTENDS Integers, Sequences, FiniteSets, TLC

VARIABLES
    script,     \* which of the two scripts runs
    expected,   \* the registry: expected[k] is the digest recorded for entry k
    fs,         \* the file system: fs[k] is the state of entry k's path
    pc,         \* position of the run
    i,          \* verify-lock.py: loop position; verify_lock.py: statement (line 10 / 11)
    phase,      \* verify_lock.py: "cmp" = sha() of the comparison, "rep" = sha() of the append
    h,          \* the digest last returned by sha256_file / sha
    ok,         \* verify-lock.py: the flag ok
    bad,        \* verify_lock.py: the list bad
    stdout,     \* the lines printed so far
    exitCode,   \* the process exit status, -1 while running
    handles,    \* the file objects that are open
    nfd,        \* number of files opened so far
    result,     \* history: the status the run settled for each entry
    compared,   \* history: the digest the run compared for each entry
    writes,     \* number of writes by other processes (SpecConc)
    f,          \* SpecDigest: the open file [data, pos]
    acc,        \* SpecDigest: the hash accumulator
    fed,        \* SpecDigest: history of the chunks passed to update
    digest,     \* SpecDigest: the value returned
    dpc         \* SpecDigest: position in sha256_file

runVars == <<script, expected, fs, pc, i, phase, h, ok, bad, stdout, exitCode,
             handles, nfd, result, compared, writes>>
digestVars == <<f, acc, fed, digest, dpc>>
vars == <<runVars, digestVars>>

(***************************************************************************)
(* Bounds                                                                  *)
(***************************************************************************)
\* chunk size of sha256_file, scaled down from the 8192 of the source
ChunkSize == 2
\* longest file content in a run of a script
MaxFileLen == 1
\* longest file content given to the read loop of SpecDigest
MaxLen == 5
\* writes by other processes during one run (SpecConc)
MaxWrites == 1

Bytes == {0, 1}

RECURSIVE SeqsUpTo(_)
SeqsUpTo(n) ==
    IF n = 0 THEN {<< >>}
    ELSE LET S == SeqsUpTo(n - 1)
         IN  S \cup {Append(s, b) : s \in {t \in S : Len(t) = n - 1}, b \in Bytes}

Min(a, b) == IF a < b THEN a ELSE b

(***************************************************************************)
(* hashlib.sha256: an accumulator absorbing bytes in order, and hexdigest  *)
(* rendering it as lowercase hexadecimal text.  The 256-bit compression is *)
(* replaced by an order-sensitive 8-bit one; text is a sequence of         *)
(* characters.                                                             *)
(***************************************************************************)
LowerHex == <<"0","1","2","3","4","5","6","7","8","9","a","b","c","d","e","f">>
UpperHex == <<"0","1","2","3","4","5","6","7","8","9","A","B","C","D","E","F">>

\* hashlib.sha256(): the empty accumulator
sha256_new == 106

RECURSIVE update(_, _)
\* h.update(b): absorb the bytes of b, first to last
update(a, b) ==
    IF b = << >> THEN a
    ELSE update((a * 31 + Head(b) + 1) % 256, Tail(b))

\* h.hexdigest(): two lowercase hex digits
hexdigest(a) == <<LowerHex[(a \div 16) + 1], LowerHex[(a % 16) + 1]>>

\* str.lower / str.upper on hex text
ToLower(t) ==
    [n \in 1..Len(t) |->
        IF \E d \in 1..16 : UpperHex[d] = t[n]
        THEN LowerHex[CHOOSE d \in 1..16 : UpperHex[d] = t[n]] ELSE t[n]]
ToUpper(t) ==
    [n \in 1..Len(t) |->
        IF \E d \in 1..16 : LowerHex[d] = t[n]
        THEN UpperHex[CHOOSE d \in 1..16 : LowerHex[d] = t[n]] ELSE t[n]]

(***************************************************************************)
(* Reading a file opened 'rb'                                              *)
(***************************************************************************)
\* f.read(n): the next at most n bytes from position pos, empty at end of file
read(data, pos, n) == SubSeq(data, pos + 1, Min(pos + n, Len(data)))

\* f.read(): everything from position pos
readall(data, pos) == SubSeq(data, pos + 1, Len(data))

\* verify-lock.py:16  "if not b: break"
EndOfStream_short(b) == Len(b) < ChunkSize
EndOfStream(b) == b = << >>

RECURSIVE sha256_loop(_, _, _)
\* verify-lock.py:14-17  the while loop of sha256_file
sha256_loop(data, pos, a) ==
    LET b == read(data, pos, ChunkSize)
    IN  IF EndOfStream(b) THEN a
        ELSE sha256_loop(data, pos + Len(b), update(a, b))

\* verify-lock.py:11-18
sha256_file(data) == hexdigest(sha256_loop(data, 0, sha256_new))

\* verify_lock.py:8
sha(data) == hexdigest(update(sha256_new, readall(data, 0)))

(***************************************************************************)
(* The registries and the file system                                      *)
(***************************************************************************)
VL == "verify-lock.py"
VU == "verify_lock.py"

\* verify-lock.py:5-9 (HASHES) and verify_lock.py:7 (EXP): the protected files,
\* in insertion order
Registry(s) ==
    IF s = VL
    THEN <<"EMUAuthenticTables.h", "ZPlaneFilter.h", "EnvelopeFollower.h">>
    ELSE <<"ZPlaneFilter.h", "EMUAuthenticTables.h">>

N == Len(Registry(script))

\* verify-lock.py:22  HASHES.items(): the entries in the order the loop visits them
items_reversed(n) == [k \in 1..n |-> n + 1 - k]
items(n) == [k \in 1..n |-> k]

FileContents == SeqsUpTo(MaxFileLen)

\* what a protected path can be: no such file, a file open() refuses, a file
\* whose read() fails, a readable file with its content
FileStates ==
    {[kind |-> kd, data |-> << >>] : kd \in {"absent", "unreadable", "badread"}}
    \cup {[kind |-> "file", data |-> c] : c \in FileContents}

\* the content whose digest was recorded when the files were locked
LockedContent == <<1>>

\* a recorded digest is hex text, written in lowercase or in uppercase
ExpectedDigests == {sha(LockedContent), ToUpper(sha(LockedContent))}

Line(kind, entry, exp, got) ==
    [kind |-> kind, entry |-> entry, expected |-> exp, got |-> got]

Terminated == pc \in {"done", "crashed"}

\* the entry the run is working on
Cur == IF script = VL THEN items(N)[i] ELSE i

\* the referenced file object of the entry being read
CurHandle == CHOOSE hd \in handles : hd.ref /\ hd.entry = Cur

DigestIdle ==
    /\ f = [data |-> << >>, pos |-> 0]
    /\ acc = sha256_new
    /\ fed = << >>
    /\ digest = << >>
    /\ dpc = "idle"

Init ==
    /\ script \in {VL, VU}
    /\ expected \in [1..N -> ExpectedDigests]
    /\ fs \in [1..N -> FileStates]
    /\ pc = IF script = VL THEN "loop" ELSE "open"
    /\ i = 1
    /\ phase = "cmp"
    /\ h = << >>
    /\ ok = TRUE
    /\ bad = << >>
    /\ stdout = << >>
    /\ exitCode = -1
    /\ handles = {}
    /\ nfd = 0
    /\ result = [k \in 1..N |-> "none"]
    /\ compared = [k \in 1..N |-> << >>]
    /\ writes = 0
    /\ DigestIdle

(***************************************************************************)
(* An exception nobody catches: traceback on stderr, exit status 1         *)
(***************************************************************************)
Uncaught ==
    /\ pc' = "crashed"
    /\ exitCode' = 1

\* open(p, 'rb') succeeding: a new referenced file object
Opened(k) ==
    /\ handles' = handles \cup {[fd |-> nfd + 1, entry |-> k, ref |-> TRUE]}
    /\ nfd' = nfd + 1

(***************************************************************************)
(* scripts/verify-lock.py                                                  *)
(***************************************************************************)
\* verify-lock.py:35,38  the value main returns
ExitStatus_zero(allok) == 0
ExitStatus(allok) == IF allok THEN 0 ELSE 2

\* verify-lock.py:29  "if h != expected"
DigestDiffers_nocase(a, b) == ToLower(a) # ToLower(b)
DigestDiffers(a, b) == a # b

\* verify-lock.py:22-27: next entry of the loop, os.path.exists, the missing branch
main_Exists ==
    /\ script = VL /\ pc = "loop" /\ i <= N
    /\ IF fs[Cur].kind = "absent"
       THEN /\ stdout' = Append(stdout,
                   Line("[LOCK] Missing locked file:", Cur, << >>, << >>))
            /\ ok' = FALSE
            /\ result' = [result EXCEPT ![Cur] = "Missing"]
            /\ i' = i + 1
            /\ pc' = "loop"
       ELSE /\ pc' = "open"
            /\ UNCHANGED <<stdout, ok, result, i>>
    /\ UNCHANGED <<script, expected, fs, phase, h, bad, exitCode, handles, nfd,
                   compared, writes, digestVars>>

\* verify-lock.py:13  open(p,'rb') inside sha256_file
main_Open ==
    /\ script = VL /\ pc = "open"
    /\ IF fs[Cur].kind \in {"absent", "unreadable"}
       THEN /\ Uncaught
            /\ UNCHANGED <<handles, nfd>>
       ELSE /\ Opened(Cur)
            /\ pc' = "read"
            /\ UNCHANGED exitCode
    /\ UNCHANGED <<script, expected, fs, i, phase, h, ok, bad, stdout, result,
                   compared, writes, digestVars>>

\* verify-lock.py:12-18  the read loop, leaving the with block, the return
main_Digest ==
    /\ script = VL /\ pc = "read"
    /\ handles' = handles \ {CurHandle}
    /\ IF fs[Cur].kind = "file"
       THEN /\ h' = sha256_file(fs[Cur].data)
            /\ pc' = "compare"
            /\ UNCHANGED exitCode
       ELSE /\ Uncaught
            /\ UNCHANGED h
    /\ UNCHANGED <<script, expected, fs, i, phase, ok, bad, stdout, nfd, result,
                   compared, writes, digestVars>>

\* verify-lock.py:28-33  the comparison and the mismatch branch
main_Compare ==
    /\ script = VL /\ pc = "compare"
    /\ compared' = [compared EXCEPT ![Cur] = h]
    /\ IF DigestDiffers(h, expected[Cur])
       THEN /\ stdout' = stdout \o
                   << Line("[LOCK] Hash mismatch for", Cur, << >>, << >>),
                      Line("       expected:", 0, expected[Cur], << >>),
                      Line("       got     :", 0, << >>, h) >>
            /\ ok' = FALSE
            /\ result' = [result EXCEPT ![Cur] = "Mismatch"]
       ELSE /\ result' = [result EXCEPT ![Cur] = "Ok"]
            /\ UNCHANGED <<stdout, ok>>
    /\ i' = i + 1
    /\ pc' = "loop"
    /\ UNCHANGED <<script, expected, fs, phase, h, bad, exitCode, handles, nfd,
                   writes, digestVars>>

\* verify-lock.py:34-38,41  after the loop
main_Return ==
    /\ script = VL /\ pc = "loop" /\ i > N
    /\ stdout' = IF ok
                 THEN Append(stdout, Line("LOCK OK", 0, << >>, << >>))
                 ELSE stdout \o << Line("", 0, << >>, << >>),
                                   Line("LOCK FAILED:", 0, << >>, << >>) >>
    /\ exitCode' = ExitStatus(ok)
    /\ pc' = "done"
    /\ UNCHANGED <<script, expected, fs, i, phase, h, ok, bad, handles, nfd,
                   result, compared, writes, digestVars>>

(***************************************************************************)
(* scripts/verify_lock.py                                                  *)
(***************************************************************************)
\* verify_lock.py:10-11  the statement after the one for entry k
Advance(k) ==
    IF k < N
    THEN /\ i' = k + 1
         /\ phase' = "cmp"
         /\ pc' = "open"
    ELSE /\ pc' = "report"
         /\ UNCHANGED <<i, phase>>

\* verify_lock.py:8  open(p,"rb") inside sha
sha_Open ==
    /\ script = VU /\ pc = "open"
    /\ IF fs[Cur].kind \in {"absent", "unreadable"}
       THEN /\ Uncaught
            /\ UNCHANGED <<handles, nfd>>
       ELSE /\ Opened(Cur)
            /\ pc' = "read"
            /\ UNCHANGED exitCode
    /\ UNCHANGED <<script, expected, fs, i, phase, h, ok, bad, stdout, result,
                   compared, writes, digestVars>>

\* verify_lock.py:8  .read() and .hexdigest(); the file object is never closed
\* by the script: it is dropped, and the runtime closes it at once (reference
\* counting) or at some later collection
sha_Read ==
    /\ script = VU /\ pc = "read"
    /\ \E prompt \in BOOLEAN :
          handles' = IF prompt
                     THEN handles \ {CurHandle}
                     ELSE (handles \ {CurHandle})
                            \cup {[CurHandle EXCEPT !.ref = FALSE]}
    /\ IF fs[Cur].kind = "file"
       THEN /\ h' = sha(fs[Cur].data)
            /\ pc' = IF phase = "cmp" THEN "compare" ELSE "append"
            /\ UNCHANGED exitCode
       ELSE /\ Uncaught
            /\ UNCHANGED h
    /\ UNCHANGED <<script, expected, fs, i, phase, ok, bad, stdout, nfd, result,
                   compared, writes, digestVars>>

\* the runtime finalising a dropped file object
Finalize ==
    /\ \E hd \in handles :
          /\ ~hd.ref
          /\ handles' = handles \ {hd}
    /\ UNCHANGED <<script, expected, fs, pc, i, phase, h, ok, bad, stdout,
                   exitCode, nfd, result, compared, writes, digestVars>>

\* verify_lock.py:10-11  "if sha(p) != EXP[name]"
mod_Compare ==
    /\ script = VU /\ pc = "compare"
    /\ compared' = [compared EXCEPT ![Cur] = h]
    /\ IF DigestDiffers(h, expected[Cur])
       THEN /\ phase' = "rep"
            /\ pc' = "open"
            /\ UNCHANGED <<i, result>>
       ELSE /\ result' = [result EXCEPT ![Cur] = "Ok"]
            /\ Advance(Cur)
    /\ UNCHANGED <<script, expected, fs, h, ok, bad, stdout, exitCode, handles,
                   nfd, writes, digestVars>>

\* verify_lock.py:10-11  "bad.append((name, sha(p)))" once the second sha returned
mod_Append ==
    /\ script = VU /\ pc = "append"
    /\ bad' = Append(bad, [entry |-> Cur, h |-> h])
    /\ result' = [result EXCEPT ![Cur] = "Mismatch"]
    /\ Advance(Cur)
    /\ UNCHANGED <<script, expected, fs, h, ok, stdout, exitCode, handles, nfd,
                   compared, writes, digestVars>>

\* verify_lock.py:12-16
mod_Report ==
    /\ script = VU /\ pc = "report"
    /\ IF bad # << >>
       THEN /\ stdout' = stdout
                   \o << Line("DSP LOCK VIOLATION:", 0, << >>, << >>) >>
                   \o [n \in 1..Len(bad) |->
                         Line("  - ", bad[n].entry, expected[bad[n].entry], bad[n].h)]
            /\ exitCode' = 2
       ELSE /\ stdout' = Append(stdout, Line("DSP lock OK.", 0, << >>, << >>))
            /\ exitCode' = 0
    /\ pc' = "done"
    /\ UNCHANGED <<script, expected, fs, i, phase, h, ok, bad, handles, nfd,
                   result, compared, writes, digestVars>>

(***************************************************************************)
(* Another process changing a protected path while the verifier runs       *)
(***************************************************************************)
Writer ==
    /\ ~Terminated
    /\ writes < MaxWrites
    /\ \E k \in 1..N, s \in FileStates :
          /\ s # fs[k]
          /\ \A hd \in handles : hd.ref => hd.entry # k
          /\ fs' = [fs EXCEPT ![k] = s]
    /\ writes' = writes + 1
    /\ UNCHANGED <<script, expected, pc, i, phase, h, ok, bad, stdout, exitCode,
                   handles, nfd, result, compared, digestVars>>

Next ==
    \/ main_Exists
    \/ main_Open
    \/ main_Digest
    \/ main_Compare
    \/ main_Return
    \/ sha_Open
    \/ sha_Read
    \/ mod_Compare
    \/ mod_Append
    \/ mod_Report
    \/ Finalize

\* one run of a script on a file system nothing else touches
Spec == Init /\ [][Next]_vars

NextConc == Next \/ Writer

\* one run of a script while another process writes the protected files
SpecConc == Init /\ [][NextConc]_vars

(***************************************************************************)
(* sha256_file on one file, chunk by chunk                                 *)
(***************************************************************************)
\* the scripts are not running
RunIdle ==
    /\ script = VL
    /\ expected = [k \in 1..N |-> sha(LockedContent)]
    /\ fs = [k \in 1..N |-> [kind |-> "file", data |-> LockedContent]]
    /\ pc = "loop"
    /\ i = 1
    /\ phase = "cmp"
    /\ h = << >>
    /\ ok = TRUE
    /\ bad = << >>
    /\ stdout = << >>
    /\ exitCode = -1
    /\ handles = {}
    /\ nfd = 0
    /\ result = [k \in 1..N |-> "none"]
    /\ compared = [k \in 1..N |-> << >>]
    /\ writes = 0

\* verify-lock.py:12-13  h=hashlib.sha256(); the file just opened
InitDigest ==
    /\ RunIdle
    /\ f \in {[data |-> c, pos |-> 0] : c \in SeqsUpTo(MaxLen)}
    /\ acc = sha256_new
    /\ fed = << >>
    /\ digest = << >>
    /\ dpc = "loop"

\* verify-lock.py:15-17  a read that returns bytes: h.update(b)
sha256_file_Update ==
    /\ dpc = "loop"
    /\ LET b == read(f.data, f.pos, ChunkSize)
       IN  /\ ~EndOfStream(b)
           /\ acc' = update(acc, b)
           /\ fed' = Append(fed, b)
           /\ f' = [f EXCEPT !.pos = @ + Len(b)]
    /\ UNCHANGED <<digest, dpc, runVars>>

\* verify-lock.py:15-16,18  the read that ends the loop, return h.hexdigest()
sha256_file_Return ==
    /\ dpc = "loop"
    /\ LET b == read(f.data, f.pos, ChunkSize)
       IN  /\ EndOfStream(b)
           /\ f' = [f EXCEPT !.pos = @ + Len(b)]
    /\ digest' = hexdigest(acc)
    /\ dpc' = "returned"
    /\ UNCHANGED <<acc, fed, runVars>>

NextDigest ==
    \/ sha256_file_Update
    \/ sha256_file_Return

SpecDigest == InitDigest /\ [][NextDigest]_vars

\* the interpreter keeps executing the loop
FairSpecDigest == SpecDigest /\ WF_vars(NextDigest)

(***************************************************************************)
(* What the specification says of an entry, read off the file system       *)
(***************************************************************************)
Readable(k) == fs[k].kind = "file"

\* the digest of the whole content of entry k's file
TrueDigest(k) == hexdigest(update(sha256_new, fs[k].data))

Status(k) ==
    IF ~Readable(k) THEN "Missing"
    ELSE IF TrueDigest(k) = expected[k] THEN "Ok" ELSE "Mismatch"

Violating == {k \in 1..N : Status(k) # "Ok"}

RECURSIVE Concat(_)
Concat(ss) == IF ss = << >> THEN << >> ELSE Head(ss) \o Concat(Tail(ss))

EntryLines == {n \in 1..Len(stdout) : stdout[n].entry # 0}

(***************************************************************************)
(* Claims                                                                  *)
(***************************************************************************)

\* C1: a run that has ended exited with status 0 exactly when every entry of
\* the registry is Ok (its file is readable and its digest is the expected
\* one); with any entry Missing or Mismatch the status is not 0.
C1_ExitZeroIffAllOk ==
    Terminated =>
        /\ exitCode # -1
        /\ (exitCode = 0) <=> (\A k \in 1..N : Status(k) = "Ok")

C1_Witness_AllOk ==
    /\ pc = "done"
    /\ script = VL
    /\ exitCode = 0
    /\ \A k \in 1..N : Status(k) = "Ok" /\ result[k] = "Ok"

\* C2: an entry whose path does not exist or cannot be read is recorded as
\* Missing: never as Mismatch, never by a fault that ends the process, and in
\* a completed run its status is Missing.
C2_UnreadableIsMissing ==
    \A k \in 1..N :
        ~Readable(k) =>
            /\ result[k] \in {"none", "Missing"}
            /\ ~(pc = "crashed" /\ Cur = k)
            /\ (pc = "done" => result[k] = "Missing")

\* C3: when the process reaches its terminal state every entry of the
\* registry has been checked and given a status, whatever happened to the
\* entries before it.
C3_AllEntriesChecked ==
    Terminated => \A k \in 1..N : result[k] # "none"

\* C4 as stated: a checked entry whose file exists and whose digest equals
\* the expected digest up to the case of the hex letters is Ok.
C4_CaseInsensitiveOk ==
    \A k \in 1..N :
        (/\ Readable(k)
         /\ result[k] # "none"
         /\ ToLower(TrueDigest(k)) = ToLower(expected[k]))
        => result[k] = "Ok"

\* C4 amended: an entry the run compared has the digest of its file as the
\* compared value, and is Ok exactly when that lowercase digest and the
\* expected digest are the same text, character for character; an expected
\* digest that differs only in the case of its letters gives Mismatch.
C4_ExactComparison ==
    \A k \in 1..N :
        result[k] \in {"Ok", "Mismatch"} =>
            /\ Readable(k)
            /\ compared[k] = TrueDigest(k)
            /\ (result[k] = "Ok") <=> (compared[k] = expected[k])

C4_Witness_CaseOnlyMismatch ==
    \E k \in 1..N :
        /\ result[k] = "Mismatch"
        /\ compared[k] # expected[k]
        /\ ToLower(compared[k]) = ToLower(expected[k])

\* the report shows entry k with the expected digest and the digest got
Reported(k, exp, got) ==
    \/ /\ script = VL
       /\ \E n \in 1..(Len(stdout) - 2) :
             /\ stdout[n].kind = "[LOCK] Hash mismatch for"
             /\ stdout[n].entry = k
             /\ stdout[n + 1].kind = "       expected:"
             /\ stdout[n + 1].expected = exp
             /\ stdout[n + 2].kind = "       got     :"
             /\ stdout[n + 2].got = got
    \/ /\ script = VU
       /\ \E n \in 1..Len(stdout) :
             /\ stdout[n].kind = "  - "
             /\ stdout[n].entry = k
             /\ stdout[n].expected = exp
             /\ stdout[n].got = got

\* C5: in a run that has ended, every entry whose file exists with a digest
\* other than the expected one is Mismatch, is in the report with its
\* expected and its actual digest, and the exit status is 2.
C5_MismatchReportedExit2 ==
    Terminated =>
        \A k \in 1..N :
            (Readable(k) /\ TrueDigest(k) # expected[k]) =>
                /\ result[k] = "Mismatch"
                /\ Reported(k, expected[k], TrueDigest(k))
                /\ exitCode = 2

\* C6: the report lines that name an entry appear in registry insertion
\* order: of two such lines the earlier names the earlier entry.
C6_ReportInRegistryOrder ==
    \A a, b \in EntryLines :
        a < b => stdout[a].entry < stdout[b].entry

C6_Witness_TwoViolations ==
    /\ pc = "done"
    /\ \E a, b \in EntryLines :
          /\ a < b
          /\ stdout[a].kind # stdout[b].kind
          /\ result[stdout[a].entry] # result[stdout[b].entry]

\* C7: the output of a run that has ended is one line per violating entry,
\* none for an Ok entry, then exactly one summary line, which is last: the
\* success line without violation, the failure banner otherwise.
C7_OneLinePerViolationThenSummary ==
    Terminated =>
        /\ Len(stdout) = Cardinality(Violating) + 1
        /\ \A k \in Violating :
              Cardinality({n \in 1..(Len(stdout) - 1) : stdout[n].entry = k}) = 1
        /\ stdout[Len(stdout)].kind \in
              (IF Violating = {} THEN {"LOCK OK", "DSP lock OK."}
                                 ELSE {"LOCK FAILED:", "DSP LOCK VIOLATION:"})

\* C8: at most one file is open at any time, an open file is the file of the
\* entry being read, and no file is open when the run has ended.
C8_ScopedHandles ==
    /\ Cardinality(handles) <= 1
    /\ \A hd \in handles : pc = "read" /\ hd.entry = Cur
    /\ Terminated => handles = {}

\* C9: sha256_file feeds the accumulator chunks of 1..ChunkSize bytes whose
\* concatenation is the part of the file read so far, returns the digest of
\* a single whole-file read (sha of verify_lock.py), having fed the whole
\* content, and its loop ends for every file.
C9_ChunkedDigestIsWholeDigest ==
    /\ [](/\ \A n \in 1..Len(fed) : Len(fed[n]) \in 1..ChunkSize
          /\ Concat(fed) = SubSeq(f.data, 1, f.pos)
          /\ dpc = "returned" =>
                /\ Concat(fed) = f.data
                /\ digest = sha(f.data)
                /\ digest = sha256_file(f.data))
    /\ <>(dpc = "returned")

C9_Witness_TwoFullChunks ==
    /\ dpc = "returned"
    /\ Len(f.data) = 2 * ChunkSize
    /\ Len(fed) = 2
    /\ fed[1] # fed[2]

\* C10: the digest a mismatch line displays is the digest that was compared
\* for that entry, hence not the expected digest displayed with it, also
\* when another process writes the file during the run.
C10_DisplayedIsCompared ==
    \A n \in 1..Len(stdout) :
        /\ stdout[n].kind = "  - " =>
              /\ stdout[n].got = compared[stdout[n].entry]
              /\ stdout[n].got # stdout[n].expected
        /\ stdout[n].kind = "       got     :" =>
              /\ stdout[n].got = compared[stdout[n - 2].entry]
              /\ stdout[n].got # stdout[n - 1].expected

====
